---- MODULE Spec2Model ----
(***************************************************************************)
(* Model of crawler.py (class Crawler): the task queue, the md5 seen-set,  *)
(* the worker loops, the rule table and its handlers, and the driver of    *)
(* the __main__ block.  Every access to state shared between threads is a  *)
(* step of its own; the sections of code under self._mutex are guarded by  *)
(* the mutex variable.                                                     *)
(***************************************************************************)
EXTENDS Integers, Sequences, FiniteSets, TLC

(***************************************************************************)
(* Bounds of the model.                                                    *)
(***************************************************************************)
\* number of worker threads (the n_workers argument of the constructor)
NWorkers == 2
\* calls of add_to_queue(seed) the driver may make before start(seed)
MaxPreSeeds == 1
\* longest category string (in tokens) passed to join_cats
MaxCatLen == 2

Workers == 0 .. (NWorkers - 1)
\* thread id of the driver (worker ids are 0 .. NWorkers - 1)
Main == 0 - 1
Threads == Workers \cup {Main}

(***************************************************************************)
(* URLs.  A URL string is modelled by whether it is absolute               *)
(* ("http://jobs.tut.by" + path) or a root-relative link (path only), and  *)
(* by its path segments.  Trailing slashes are not modelled.               *)
(***************************************************************************)
Abs(p) == [abs |-> TRUE, path |-> p]
Rel(p) == [abs |-> FALSE, path |-> p]

\* segments that consist of digits only (\d+)
Digits == {"1", "2"}
\* segments that start with "page" (\/page.*)
PageSegs == {"page2"}

\* re.match(r'http', url) or urljoin(prefix, url) for a root-relative link
abs_url(prefix, url) ==
    IF url.abs THEN url
    ELSE IF prefix.abs THEN Abs(url.path) ELSE url

\* hashlib.md5(url).hexdigest(): one digest per URL string
md5(url) == <<"md5", url.abs, url.path>>

(***************************************************************************)
(* Category strings are sequences of tokens; SEP is the token " ->>> ".    *)
(* None is Python's None (and a dict without the key), a value apart from  *)
(* every string.                                                           *)
(***************************************************************************)
SEP == "->>>"
None == <<"None">>

RECURSIVE SplitFrom(_, _, _)
\* str.split(" ->>> "): the list of pieces between separators
SplitFrom(s, i, cur) ==
    IF i > Len(s) THEN <<cur>>
    ELSE IF s[i] = SEP THEN <<cur>> \o SplitFrom(s, i + 1, <<>>)
    ELSE SplitFrom(s, i + 1, Append(cur, s[i]))

Split(s) == SplitFrom(s, 1, <<>>)

RECURSIVE Join(_)
\* " ->>> ".join(pieces)
Join(ps) ==
    IF Len(ps) = 0 THEN <<>>
    ELSE IF Len(ps) = 1 THEN ps[1]
    ELSE ps[1] \o <<SEP>> \o Join(Tail(ps))

\* truth value of a category: None and "" are falsy
Truthy(c) == c # None /\ c # <<>>

\* Variant of join_cats: two non-empty strings are concatenated
join_cats_flat(cat1, cat2) ==
    IF Truthy(cat1) /\ Truthy(cat2) THEN cat1 \o cat2
    ELSE IF Truthy(cat1) THEN cat1
    ELSE IF Truthy(cat2) THEN cat2
    ELSE <<>>

join_cats(cat1, cat2) ==
    IF Truthy(cat1) /\ Truthy(cat2) THEN Join(Split(cat1) \o Split(cat2))
    ELSE IF Truthy(cat1) THEN cat1
    ELSE IF Truthy(cat2) THEN cat2
    ELSE <<>>

(***************************************************************************)
(* The rule table: rule i matches url iff re.fullmatch(pattern_i, url).    *)
(***************************************************************************)
NRules == 5

RuleMatches(i, url) ==
    LET p == url.path
        n == Len(p)
    IN  CASE i = 1 -> url.abs /\ n = 0
          [] i = 2 -> url.abs /\ n = 2 /\ p[1] = "catalog"
          [] i \in {3, 4} -> /\ url.abs
                             /\ n >= 3
                             /\ p[1] = "catalog"
                             /\ (n > 3 => p[4] \in PageSegs)
          [] i = 5 -> n >= 2 /\ p[n - 1] = "vacancy" /\ p[n] \in Digits
          [] OTHER -> FALSE

RuleFunction(i) ==
    CASE i = 1 -> "level1"
      [] i = 2 -> "level2"
      [] i = 3 -> "pagination"
      [] i = 4 -> "vacancies_list"
      [] i = 5 -> "extractor"

rules == [i \in 1 .. NRules |-> RuleFunction(i)]

(***************************************************************************)
(* Documents.  A response body is modelled by what the handlers' xpath     *)
(* queries return on it: the (label, href) pairs of the category lists,    *)
(* the pager-next hrefs, the vacancy hrefs, and whether every field the    *)
(* extractor indexes with [0] is present.  status tells the response       *)
(* apart: "ok" is a 2xx answer with markup, "404" a non-2xx answer whose   *)
(* text is the server's error page, "empty" a 2xx answer whose text is "". *)
(***************************************************************************)
Link(name, href) == [name |-> name, href |-> href]

Page(c1, c2, nx, vs, f) ==
    [status |-> "ok", cats1 |-> c1, cats2 |-> c2, next |-> nx, vacs |-> vs,
     fields |-> f]

\* a task without a 'body' key
NoBody ==
    [status |-> "none", cats1 |-> <<>>, cats2 |-> <<>>, next |-> <<>>,
     vacs |-> <<>>, fields |-> FALSE]

\* response.text of a non-2xx answer: an error page without any of the nodes
ErrorPage == [Page(<<>>, <<>>, <<>>, <<>>, FALSE) EXCEPT !.status = "404"]

\* response.text of a 2xx answer without content: the string ""
EmptyBody == [NoBody EXCEPT !.status = "empty"]

\* etree.HTML(body) yields a tree: not for "" and not without the 'body' key
Parsable(body) == body.status \in {"ok", "404"}

Root == Abs(<<>>)
CatSales == Abs(<<"catalog", "sales">>)
CatIT == Abs(<<"catalog", "it">>)
SubB2B == Abs(<<"catalog", "sales", "b2b">>)
SubB2BPage2 == Abs(<<"catalog", "sales", "b2b", "page2">>)
SubQA == Abs(<<"catalog", "it", "qa">>)
Vac1 == Abs(<<"vacancy", "1">>)
RelVac1 == Rel(<<"vacancy", "1">>)
Vac2 == Abs(<<"vacancy", "2">>)
About == Abs(<<"about">>)
Gone == Abs(<<"catalog", "gone">>)
Blank == Abs(<<"catalog", "blank">>)

AllURLs == {Root, CatSales, CatIT, SubB2B, SubB2BPage2, SubQA, Vac1, RelVac1,
            Vac2, About, Gone, Blank}

(***************************************************************************)
(* Scenarios: the pages the transport serves, and what the caller does:    *)
(* the seed task it passes (url and type), how often it calls start(), and *)
(* whether it polls is_working() until False before it calls stop().       *)
(***************************************************************************)

\* root page with the single category Sales; /catalog/sales answers with a
\* listing page (one vacancy link, no pager-next); a complete vacancy page
SiteE2E ==
    [name |-> "e2e", kind |-> "crawl", starts |-> 1, patient |-> TRUE,
     seed |-> Root,
     pages |->
        (Root :> Page(<<Link(<<"Sales">>, Rel(<<"catalog", "sales">>))>>,
                      <<>>, <<>>, <<>>, FALSE)
         @@ CatSales :> Page(<<>>, <<>>, <<>>, <<Vac1>>, FALSE)
         @@ Vac1 :> Page(<<>>, <<>>, <<>>, <<>>, TRUE))]

\* two categories whose pages both list the subcategory /catalog/sales/b2b;
\* its listing page has no vacancy link and a pager-next back to the root
SiteTree ==
    [name |-> "tree", kind |-> "crawl", starts |-> 1, patient |-> TRUE,
     seed |-> Root,
     pages |->
        (Root :> Page(<<Link(<<"Sales">>, Rel(<<"catalog", "sales">>)),
                        Link(<<"IT">>, Rel(<<"catalog", "it">>))>>,
                      <<>>, <<>>, <<>>, FALSE)
         @@ CatSales :> Page(<<>>,
                             <<Link(<<"B2B">>, Rel(<<"catalog", "sales", "b2b">>))>>,
                             <<>>, <<>>, FALSE)
         @@ CatIT :> Page(<<>>,
                          <<Link(<<"B2B">>, Rel(<<"catalog", "sales", "b2b">>))>>,
                          <<>>, <<>>, FALSE)
         @@ SubB2B :> Page(<<>>, <<>>, <<Rel(<<>>)>>, <<>>, FALSE))]

\* the seed is a listing page without vacancies; page 2 has no pager-next and
\* lists a complete vacancy page and a relative link
SitePaged ==
    [name |-> "paged", kind |-> "crawl", starts |-> 1, patient |-> TRUE,
     seed |-> SubB2B,
     pages |->
        (SubB2B :> Page(<<>>, <<>>,
                        <<Rel(<<"catalog", "sales", "b2b", "page2">>)>>,
                        <<>>, FALSE)
         @@ SubB2BPage2 :> Page(<<>>, <<>>, <<>>, <<Vac1, RelVac1>>, FALSE)
         @@ Vac1 :> Page(<<>>, <<>>, <<>>, <<>>, TRUE))]

\* the seed is the category page of IT with the one subcategory QA, whose
\* listing page (no pager-next) links a complete vacancy page and one that
\* lacks a required field
SiteDetail ==
    [name |-> "detail", kind |-> "crawl", starts |-> 1, patient |-> TRUE,
     seed |-> CatIT,
     pages |->
        (CatIT :> Page(<<>>,
                       <<Link(<<"QA">>, Rel(<<"catalog", "it", "qa">>))>>,
                       <<>>, <<>>, FALSE)
         @@ SubQA :> Page(<<>>, <<>>, <<>>, <<Vac1, Vac2>>, FALSE)
         @@ Vac1 :> Page(<<>>, <<>>, <<>>, <<>>, TRUE)
         @@ Vac2 :> Page(<<>>, <<>>, <<>>, <<>>, FALSE))]

\* the seed is a listing page without pager-next that links two complete
\* vacancy pages
SiteTwin ==
    [name |-> "twin", kind |-> "crawl", starts |-> 1, patient |-> TRUE,
     seed |-> SubQA,
     pages |->
        (SubQA :> Page(<<>>, <<>>, <<>>, <<Vac1, Vac2>>, FALSE)
         @@ Vac1 :> Page(<<>>, <<>>, <<>>, <<>>, TRUE)
         @@ Vac2 :> Page(<<>>, <<>>, <<>>, <<>>, TRUE))]

\* the server answers the seed with a non-2xx status and an error page; the
\* caller may call stop() at any time
SiteGone ==
    [name |-> "gone", kind |-> "crawl", starts |-> 1, patient |-> FALSE,
     seed |-> Gone,
     pages |-> (Gone :> ErrorPage)]

\* the server answers the seed with a 2xx status and an empty body
SiteBlank ==
    [name |-> "blank", kind |-> "crawl", starts |-> 1, patient |-> TRUE,
     seed |-> Blank,
     pages |-> (Blank :> EmptyBody)]

\* the seed is a page whose URL no pattern matches; start(seed) is called
\* twice
SiteAbout ==
    [name |-> "about", kind |-> "crawl", starts |-> 2, patient |-> TRUE,
     seed |-> About,
     pages |-> (About :> Page(<<>>, <<>>, <<>>, <<>>, FALSE))]

\* the caller passes a task whose type is neither 'crawl' nor 'parse', and
\* calls start(task) twice
SiteOther ==
    [name |-> "other", kind |-> "other", starts |-> 2, patient |-> TRUE,
     seed |-> About,
     pages |-> (About :> Page(<<>>, <<>>, <<>>, <<>>, FALSE))]

Sites == {SiteE2E, SiteTree, SitePaged, SiteDetail, SiteTwin, SiteGone,
          SiteBlank, SiteAbout, SiteOther}

\* requests.get(url) raises for a string without a scheme and for a URL the
\* site does not serve
FetchRaises(s, url) == ~url.abs \/ url \notin DOMAIN s.pages

(***************************************************************************)
(* Tasks.  data is a reference into heap (0: no 'data' key or a fresh {}); *)
(* label is the category the creating handler computed for the task.       *)
(***************************************************************************)
Task(type, url, data, body, label) ==
    [type |-> type, url |-> url, data |-> data, body |-> body, label |-> label]

NoTask == Task("none", Root, 0, NoBody, None)

VARIABLES
    site,            \* the scenario: pages served, seed, caller
    _running,        \* self._running
    _mutex,          \* holder of self._mutex, or "free"
    _active_workers, \* self._active_workers
    _tasks,          \* self._tasks
    _visited,        \* self._visited
    _alerts,         \* self._alerts
    _vacancies,      \* self._vacancies
    heap,            \* the 'data' dicts: heap[r] is the dict's category
    pc,              \* position of every thread
    aq,              \* add_to_queue frame of every thread
    task,            \* do_task: the popped task of every worker
    rule,            \* parse: index of the rule being tried
    rule_applied,    \* parse: rule_applied
    nodes,           \* handler: xpath results still to iterate
    invoked,         \* parse: handlers called so far for the task
    started,         \* start: threads started so far
    preseeds,        \* add_to_queue(seed) calls made before start
    result,          \* last value returned by is_working(): "True", "False"
    enqueued,        \* per URL: crawl tasks put on the queue so far
    fetched          \* per URL: requests.get calls so far

vars == <<site, _running, _mutex, _active_workers, _tasks, _visited, _alerts,
          _vacancies, heap, pc, aq, task, rule, rule_applied, nodes, invoked,
          started, preseeds, result, enqueued, fetched>>

NoCall == [stage |-> "none", task |-> NoTask]

Init ==
    /\ site \in Sites
    /\ _running = FALSE
    /\ _mutex = "free"
    /\ _active_workers = [w \in Workers |-> 0]
    /\ _tasks = <<>>
    /\ _visited = {}
    /\ _alerts = <<>>
    /\ _vacancies = <<>>
    /\ heap = <<>>
    /\ pc = [t \in Threads |-> IF t = Main THEN "init" ELSE "unstarted"]
    /\ aq = [t \in Threads |-> NoCall]
    /\ task = [w \in Workers |-> NoTask]
    /\ rule = [w \in Workers |-> 1]
    /\ rule_applied = [w \in Workers |-> FALSE]
    /\ nodes = [w \in Workers |-> <<>>]
    /\ invoked = [w \in Workers |-> <<>>]
    /\ started = 0
    /\ preseeds = 0
    /\ result = "none"
    /\ enqueued = [u \in AllURLs |-> 0]
    /\ fetched = [u \in AllURLs |-> 0]

(***************************************************************************)
(* Helpers for the statements that take self._mutex for one assignment.    *)
(***************************************************************************)
MutexFree == _mutex = "free"

\* with self._mutex: self._alerts.append(alert)
add_alert(alert) ==
    /\ MutexFree
    /\ _alerts' = Append(_alerts, alert)

Alert(kind, url, r) == [kind |-> kind, url |-> url, rule |-> r]

RECURSIVE SumUpTo(_, _)
SumUpTo(f, n) == IF n < 0 THEN 0 ELSE f[n] + SumUpTo(f, n - 1)
\* sum(self._active_workers)
Sum(f) == SumUpTo(f, NWorkers - 1)

(***************************************************************************)
(* add_to_queue(task), called by thread t.  The test of the seen-set, the  *)
(* insertion into it and the put are three steps: no lock is held.         *)
(***************************************************************************)
\* the call: a crawl task goes through the seen-set, a parse task does not
Call_add_to_queue(t, tk) ==
    aq' = [aq EXCEPT ![t] = [stage |-> IF tk.type = "crawl" THEN "check" ELSE "put",
                             task |-> tk]]

\* Variant of add_to_queue_check: the seen-set is not consulted
add_to_queue_check_always(t) ==
    /\ aq[t].stage = "check"
    /\ aq' = [aq EXCEPT ![t].stage = "add"]
    /\ UNCHANGED <<site, _running, _mutex, _active_workers, _tasks, _visited,
                   _alerts, _vacancies, heap, pc, task, rule, rule_applied,
                   nodes, invoked, started, preseeds, result, enqueued, fetched>>

\* if md5 in self._visited: return
add_to_queue_check(t) ==
    /\ aq[t].stage = "check"
    /\ aq' = [aq EXCEPT ![t] = IF md5(aq[t].task.url) \in _visited
                               THEN NoCall
                               ELSE [aq[t] EXCEPT !.stage = "add"]]
    /\ UNCHANGED <<site, _running, _mutex, _active_workers, _tasks, _visited,
                   _alerts, _vacancies, heap, pc, task, rule, rule_applied,
                   nodes, invoked, started, preseeds, result, enqueued, fetched>>

\* self._visited.add(md5)
add_to_queue_add(t) ==
    /\ aq[t].stage = "add"
    /\ _visited' = _visited \cup {md5(aq[t].task.url)}
    /\ aq' = [aq EXCEPT ![t].stage = "put"]
    /\ UNCHANGED <<site, _running, _mutex, _active_workers, _tasks, _alerts,
                   _vacancies, heap, pc, task, rule, rule_applied, nodes,
                   invoked, started, preseeds, result, enqueued, fetched>>

\* if not task.get('data'): task['data'] = {};  self._tasks.put(task)
add_to_queue_put(t) ==
    /\ aq[t].stage = "put"
    /\ LET tk == aq[t].task
           fresh == tk.data = 0 \/ heap[tk.data] = None
           put == IF fresh THEN [tk EXCEPT !.data = Len(heap) + 1] ELSE tk
       IN  /\ heap' = IF fresh THEN Append(heap, None) ELSE heap
           /\ _tasks' = Append(_tasks, put)
           /\ enqueued' = IF tk.type = "crawl"
                          THEN [enqueued EXCEPT ![tk.url] = @ + 1]
                          ELSE enqueued
    /\ aq' = [aq EXCEPT ![t] = NoCall]
    /\ UNCHANGED <<site, _running, _mutex, _active_workers, _visited, _alerts,
                   _vacancies, pc, task, rule, rule_applied, nodes, invoked,
                   started, preseeds, result, fetched>>

add_to_queue(t) ==
    \/ add_to_queue_check(t)
    \/ add_to_queue_add(t)
    \/ add_to_queue_put(t)

\* the thread is not inside a call of add_to_queue
Returned(t) == aq[t].stage = "none"

(***************************************************************************)
(* do_task(worker_number): the loop of worker w.                           *)
(***************************************************************************)
\* Variant of mark_working: the flag is not set
mark_working_skipped(w) ==
    /\ MutexFree
    /\ UNCHANGED _active_workers

\* with self._mutex: self._active_workers[worker_number] = 1
mark_working(w) ==
    /\ MutexFree
    /\ _active_workers' = [_active_workers EXCEPT ![w] = 1]

\* with self._mutex: self._active_workers[worker_number] = 0
mark_idle(w) ==
    /\ MutexFree
    /\ _active_workers' = [_active_workers EXCEPT ![w] = 0]

\* while self._running:
do_task_loop(w) ==
    /\ pc[w] = "loop"
    /\ pc' = [pc EXCEPT ![w] = IF _running THEN "mark" ELSE "exited"]
    /\ UNCHANGED <<site, _running, _mutex, _active_workers, _tasks, _visited,
                   _alerts, _vacancies, heap, aq, task, rule, rule_applied,
                   nodes, invoked, started, preseeds, result, enqueued, fetched>>

\* self.mark_working(worker_number)
do_task_mark(w) ==
    /\ pc[w] = "mark"
    /\ mark_working(w)
    /\ pc' = [pc EXCEPT ![w] = "get"]
    /\ UNCHANGED <<site, _running, _mutex, _tasks, _visited, _alerts,
                   _vacancies, heap, aq, task, rule, rule_applied, nodes,
                   invoked, started, preseeds, result, enqueued, fetched>>

\* task = self._tasks.get_nowait(), and the branch on task['type']
do_task_get(w) ==
    /\ pc[w] = "get"
    /\ IF _tasks = <<>>
       THEN /\ pc' = [pc EXCEPT ![w] = "empty"]
            /\ UNCHANGED <<_tasks, task, rule, rule_applied, invoked>>
       ELSE /\ task' = [task EXCEPT ![w] = Head(_tasks)]
            /\ _tasks' = Tail(_tasks)
            /\ pc' = [pc EXCEPT ![w] = IF Head(_tasks).type \in {"parse", "crawl"}
                                       THEN Head(_tasks).type ELSE "unknown"]
            /\ rule' = [rule EXCEPT ![w] = 1]
            /\ rule_applied' = [rule_applied EXCEPT ![w] = FALSE]
            /\ invoked' = [invoked EXCEPT ![w] = <<>>]
    /\ UNCHANGED <<site, _running, _mutex, _active_workers, _visited, _alerts,
                   _vacancies, heap, aq, nodes, started, preseeds, result,
                   enqueued, fetched>>

\* else: self.add_alert('unknown task type: %s' % task['type'])
do_task_unknown(w) ==
    /\ pc[w] = "unknown"
    /\ add_alert(Alert("unknown task type", task[w].url, 0))
    /\ pc' = [pc EXCEPT ![w] = "end"]
    /\ UNCHANGED <<site, _running, _mutex, _active_workers, _tasks, _visited,
                   _vacancies, heap, aq, task, rule, rule_applied, nodes,
                   invoked, started, preseeds, result, enqueued, fetched>>

\* except Empty ... else: self.mark_idle(worker_number); time.sleep(2)
do_task_empty(w) ==
    /\ pc[w] = "empty"
    /\ mark_idle(w)
    /\ pc' = [pc EXCEPT ![w] = "end"]
    /\ UNCHANGED <<site, _running, _mutex, _tasks, _visited, _alerts,
                   _vacancies, heap, aq, task, rule, rule_applied, nodes,
                   invoked, started, preseeds, result, enqueued, fetched>>

\* self.mark_idle(worker_number) at the end of the loop body
do_task_end(w) ==
    /\ pc[w] = "end"
    /\ Returned(w)
    /\ mark_idle(w)
    /\ pc' = [pc EXCEPT ![w] = "loop"]
    \* the locals of the iteration go out of scope
    /\ task' = [task EXCEPT ![w] = NoTask]
    /\ rule' = [rule EXCEPT ![w] = 1]
    /\ rule_applied' = [rule_applied EXCEPT ![w] = FALSE]
    /\ invoked' = [invoked EXCEPT ![w] = <<>>]
    /\ UNCHANGED <<site, _running, _mutex, _tasks, _visited, _alerts,
                   _vacancies, heap, aq, nodes, started, preseeds, result,
                   enqueued, fetched>>

(***************************************************************************)
(* crawl(task): requests.get, then add_to_queue of the parse task, or the  *)
(* alert for the exception.  The sleep that follows changes nothing.       *)
(***************************************************************************)
crawl(w) ==
    /\ pc[w] = "crawl"
    /\ fetched' = [fetched EXCEPT ![task[w].url] = @ + 1]
    /\ IF FetchRaises(site, task[w].url)
       THEN /\ add_alert(Alert("exception", task[w].url, 0))
            /\ UNCHANGED aq
       ELSE /\ Call_add_to_queue(w,
                   Task("parse", task[w].url,
                        \* task.get('data') or {}
                        IF task[w].data = 0 \/ heap[task[w].data] = None
                        THEN 0 ELSE task[w].data,
                        site.pages[task[w].url], None))
            /\ UNCHANGED _alerts
    /\ pc' = [pc EXCEPT ![w] = "end"]
    /\ UNCHANGED <<site, _running, _mutex, _active_workers, _tasks, _visited,
                   _vacancies, heap, task, rule, rule_applied, nodes, invoked,
                   started, preseeds, result, enqueued>>

(***************************************************************************)
(* parse(task): the loop over self.rules().  pc = "parse" is the head of   *)
(* the loop; a handler that returns sets rule_applied, a handler that      *)
(* raises leaves it and records the exception.                             *)
(***************************************************************************)
\* what the handler's xpath query returns on the document
XPath(fn, doc) ==
    CASE fn = "level1" -> doc.cats1
      [] fn = "level2" -> doc.cats2
      [] fn = "pagination" -> doc.next
      [] fn = "vacancies_list" -> doc.vacs
      [] OTHER -> <<>>

\* rule['function'](self, task) returned: rule_applied = True, next rule
HandlerReturns(w) ==
    /\ rule_applied' = [rule_applied EXCEPT ![w] = TRUE]
    /\ rule' = [rule EXCEPT ![w] = @ + 1]
    /\ nodes' = [nodes EXCEPT ![w] = <<>>]
    /\ pc' = [pc EXCEPT ![w] = "parse"]

\* Variant of HandlerRaises: the exception ends the loop over the rules
HandlerRaises_abort(w) ==
    /\ add_alert(Alert("exception", task[w].url, rule[w]))
    /\ rule' = [rule EXCEPT ![w] = NRules + 1]
    /\ nodes' = [nodes EXCEPT ![w] = <<>>]
    /\ pc' = [pc EXCEPT ![w] = "parse"]
    /\ UNCHANGED rule_applied

\* except Exception as e: self.add_alert(e), next rule
HandlerRaises(w) ==
    /\ add_alert(Alert("exception", task[w].url, rule[w]))
    /\ rule' = [rule EXCEPT ![w] = @ + 1]
    /\ nodes' = [nodes EXCEPT ![w] = <<>>]
    /\ pc' = [pc EXCEPT ![w] = "parse"]
    /\ UNCHANGED rule_applied

RECURSIVE NextMatch(_, _)
\* the first rule from index i on whose pattern matches url (NRules + 1: none)
NextMatch(i, url) ==
    IF i > NRules \/ RuleMatches(i, url) THEN i ELSE NextMatch(i + 1, url)

\* for rule in self.rules(): if re.fullmatch(rule['pattern'], task['url']): ...
\* One step runs the loop up to the next call of a handler, or to its end.
parse(w) ==
    /\ pc[w] = "parse"
    /\ Returned(w)
    /\ LET r == NextMatch(rule[w], task[w].url)
       IN  IF r > NRules
           THEN \* if not rule_applied: self.add_alert("no rules applied ...")
                /\ IF rule_applied[w]
                   THEN UNCHANGED _alerts
                   ELSE add_alert(Alert("no rules applied", task[w].url, 0))
                /\ pc' = [pc EXCEPT ![w] = "end"]
                /\ UNCHANGED <<rule, nodes, invoked>>
           ELSE /\ rule' = [rule EXCEPT ![w] = r]
                /\ pc' = [pc EXCEPT ![w] = rules[r]]
                /\ nodes' = [nodes EXCEPT ![w] = XPath(rules[r], task[w].body)]
                /\ invoked' = [invoked EXCEPT ![w] = Append(@, r)]
                /\ UNCHANGED _alerts
    /\ UNCHANGED <<site, _running, _mutex, _active_workers, _tasks, _visited,
                   _vacancies, heap, aq, task, rule_applied, started, preseeds,
                   result, enqueued, fetched>>

\* for cat in cats: data = task['data']; data['category'] = name;
\* add_to_queue({'type': 'crawl', 'url': abs_url(...), 'data': data})
level1(w) ==
    /\ pc[w] = "level1"
    /\ Returned(w)
    /\ IF ~Parsable(task[w].body)
       THEN \* etree.HTML raises, or doc is None and doc.xpath raises
            /\ HandlerRaises(w)
            /\ UNCHANGED <<heap, aq>>
       ELSE IF nodes[w] = <<>>
       THEN /\ HandlerReturns(w)
            /\ UNCHANGED <<heap, aq, _alerts>>
       ELSE LET cat == Head(nodes[w])
                data == task[w].data
            IN  /\ heap' = [heap EXCEPT ![data] = cat.name]
                /\ Call_add_to_queue(w,
                       Task("crawl", abs_url(task[w].url, cat.href), data,
                            NoBody, cat.name))
                /\ nodes' = [nodes EXCEPT ![w] = Tail(@)]
                /\ UNCHANGED <<_alerts, pc, rule, rule_applied>>
    /\ UNCHANGED <<site, _running, _mutex, _active_workers, _tasks, _visited,
                   _vacancies, task, invoked, started, preseeds, result,
                   enqueued, fetched>>

\* for cat in cats: data = deepcopy(task['data']);
\* data['category'] = join_cats(data.get('category'), name); add_to_queue(...)
level2(w) ==
    /\ pc[w] = "level2"
    /\ Returned(w)
    /\ IF ~Parsable(task[w].body)
       THEN \* etree.HTML raises, or doc is None and doc.xpath raises
            /\ HandlerRaises(w)
            /\ UNCHANGED <<heap, aq>>
       ELSE IF nodes[w] = <<>>
       THEN /\ HandlerReturns(w)
            /\ UNCHANGED <<heap, aq, _alerts>>
       ELSE LET cat == Head(nodes[w])
                category == join_cats(heap[task[w].data], cat.name)
            IN  /\ heap' = Append(heap, category)
                /\ Call_add_to_queue(w,
                       Task("crawl", abs_url(task[w].url, cat.href),
                            Len(heap) + 1, NoBody, category))
                /\ nodes' = [nodes EXCEPT ![w] = Tail(@)]
                /\ UNCHANGED <<_alerts, pc, rule, rule_applied>>
    /\ UNCHANGED <<site, _running, _mutex, _active_workers, _tasks, _visited,
                   _vacancies, task, invoked, started, preseeds, result,
                   enqueued, fetched>>

\* next_page = abs_url(task['url'], doc.xpath(...)[0]); add_to_queue(...)
pagination(w) ==
    /\ pc[w] = "pagination"
    /\ IF nodes[w] = <<>>
       THEN \* [0] of an empty list: IndexError (or no tree to query)
            /\ HandlerRaises(w)
            /\ UNCHANGED aq
       ELSE /\ Call_add_to_queue(w,
                   Task("crawl", abs_url(task[w].url, nodes[w][1]),
                        task[w].data, NoBody, None))
            /\ pc' = [pc EXCEPT ![w] = "return"]
            /\ UNCHANGED <<_alerts, rule, nodes, rule_applied>>
    /\ UNCHANGED <<site, _running, _mutex, _active_workers, _tasks, _visited,
                   _vacancies, heap, task, invoked, started, preseeds, result,
                   enqueued, fetched>>

\* the handler's last call of add_to_queue has returned
handler_return(w) ==
    /\ pc[w] = "return"
    /\ Returned(w)
    /\ HandlerReturns(w)
    /\ UNCHANGED <<site, _running, _mutex, _active_workers, _tasks, _visited,
                   _alerts, _vacancies, heap, aq, task, invoked, started,
                   preseeds, result, enqueued, fetched>>

\* for vacancy_url in vacancies: add_to_queue({... 'url': vacancy_url ...})
vacancies_list(w) ==
    /\ pc[w] = "vacancies_list"
    /\ Returned(w)
    /\ IF ~Parsable(task[w].body)
       THEN \* etree.HTML raises, or doc is None and doc.xpath raises
            /\ HandlerRaises(w)
            /\ UNCHANGED aq
       ELSE IF nodes[w] = <<>>
       THEN /\ HandlerReturns(w)
            /\ UNCHANGED <<aq, _alerts>>
       ELSE /\ Call_add_to_queue(w,
                   Task("crawl", Head(nodes[w]), task[w].data, NoBody, None))
            /\ nodes' = [nodes EXCEPT ![w] = Tail(@)]
            /\ UNCHANGED <<_alerts, pc, rule, rule_applied>>
    /\ UNCHANGED <<site, _running, _mutex, _active_workers, _tasks, _visited,
                   _vacancies, heap, task, invoked, started, preseeds, result,
                   enqueued, fetched>>

\* task.get('data').get('category')
get_category(tk) == IF tk.data = 0 THEN None ELSE heap[tk.data]

\* Variant of extractor: a missing field is left out of the dict
extractor_partial(w) ==
    /\ pc[w] = "extractor"
    /\ nodes' = [nodes EXCEPT ![w] =
           <<[url |-> task[w].url, category |-> get_category(task[w])]>>]
    /\ pc' = [pc EXCEPT ![w] = "add_vacancy"]
    /\ UNCHANGED <<_alerts, rule, rule_applied>>
    /\ UNCHANGED <<site, _running, _mutex, _active_workers, _tasks, _visited,
                   _vacancies, heap, aq, task, invoked, started, preseeds,
                   result, enqueued, fetched>>

\* vacancy = {...}: a missing field raises IndexError, else the dict is built
extractor(w) ==
    /\ pc[w] = "extractor"
    /\ IF ~task[w].body.fields
       THEN HandlerRaises(w)
       ELSE /\ nodes' = [nodes EXCEPT ![w] =
                   <<[url |-> task[w].url, category |-> get_category(task[w])]>>]
            /\ pc' = [pc EXCEPT ![w] = "add_vacancy"]
            /\ UNCHANGED <<_alerts, rule, rule_applied>>
    /\ UNCHANGED <<site, _running, _mutex, _active_workers, _tasks, _visited,
                   _vacancies, heap, aq, task, invoked, started, preseeds,
                   result, enqueued, fetched>>

\* if self._mutex: self._vacancies.append(vacancy)   (the lock is not taken)
add_vacancy(w) ==
    /\ pc[w] = "add_vacancy"
    /\ _vacancies' = Append(_vacancies, nodes[w][1])
    /\ HandlerReturns(w)
    /\ UNCHANGED <<site, _running, _mutex, _active_workers, _tasks, _visited,
                   _alerts, heap, aq, task, invoked, started, preseeds, result,
                   enqueued, fetched>>

(***************************************************************************)
(* The driver: add_to_queue(seed) before start, start(seed), the polling   *)
(* of is_working(), stop().                                                *)
(***************************************************************************)
SeedTask == Task(site.kind, site.seed, 0, NoBody, None)

\* c.add_to_queue({"type": "crawl", "url": start_url}) before c.start(...)
pre_seed ==
    /\ pc[Main] = "init"
    /\ Returned(Main)
    /\ preseeds < MaxPreSeeds
    /\ preseeds' = preseeds + 1
    /\ Call_add_to_queue(Main, SeedTask)
    /\ UNCHANGED <<site, _running, _mutex, _active_workers, _tasks, _visited,
                   _alerts, _vacancies, heap, pc, task, rule, rule_applied,
                   nodes, invoked, started, result, enqueued, fetched>>

\* start(task): if task: self.add_to_queue(task)
\* At "again" the first call of start has returned and the caller makes a
\* second one.
start_seed ==
    /\ pc[Main] \in {"init", "again"}
    /\ Returned(Main)
    /\ Call_add_to_queue(Main, SeedTask)
    /\ pc' = [pc EXCEPT ![Main] = "start"]
    /\ UNCHANGED <<site, _running, _mutex, _active_workers, _tasks, _visited,
                   _alerts, _vacancies, heap, task, rule, rule_applied, nodes,
                   invoked, started, preseeds, result, enqueued, fetched>>

\* Variant of start_running: the running flag is not tested
start_running_unguarded ==
    /\ pc[Main] = "start"
    /\ Returned(Main)
    /\ MutexFree
    /\ _running' = TRUE
    /\ pc' = [pc EXCEPT ![Main] = "threads"]
    /\ preseeds' = 0
    /\ UNCHANGED <<site, _mutex, _active_workers, _tasks, _visited, _alerts,
                   _vacancies, heap, aq, task, rule, rule_applied, nodes,
                   invoked, started, result, enqueued, fetched>>

\* with self._mutex: if self._running: return; self._threads = [...];
\* self._running = True
start_running ==
    /\ pc[Main] = "start"
    /\ Returned(Main)
    /\ MutexFree
    /\ IF _running
       THEN /\ pc' = [pc EXCEPT ![Main] = "poll"]
            /\ UNCHANGED _running
       ELSE /\ _running' = TRUE
            /\ pc' = [pc EXCEPT ![Main] = "threads"]
    \* the driver's count of its earlier calls is dead from here on
    /\ preseeds' = 0
    /\ UNCHANGED <<site, _mutex, _active_workers, _tasks, _visited, _alerts,
                   _vacancies, heap, aq, task, rule, rule_applied, nodes,
                   invoked, started, result, enqueued, fetched>>

\* for thread in self._threads: thread.start()
start_thread ==
    /\ pc[Main] = "threads"
    /\ started < NWorkers
    /\ started' = started + 1
    /\ pc' = [pc EXCEPT ![started] = "loop",
                        ![Main] = IF started + 1 < NWorkers THEN @
                                  ELSE IF site.starts > 1 THEN "again"
                                  ELSE "poll"]
    /\ UNCHANGED <<site, _running, _mutex, _active_workers, _tasks, _visited,
                   _alerts, _vacancies, heap, aq, task, rule, rule_applied,
                   nodes, invoked, preseeds, result, enqueued, fetched>>

\* is_working(): with self._mutex: if sum(self._active_workers) > 0 or ...
\* When the sum is positive the queue is not looked at and the lock is
\* released.  At "polled" the last call has returned False: the caller may
\* call is_working() again or call stop().
is_working_sum ==
    /\ pc[Main] \in {"poll", "polled"}
    /\ pc[Main] = "polled" => result = "False"
    /\ MutexFree
    /\ IF Sum(_active_workers) > 0
       THEN /\ result' = "True"
            /\ pc' = [pc EXCEPT ![Main] = "poll"]
            /\ UNCHANGED _mutex
       ELSE /\ _mutex' = "driver"
            /\ pc' = [pc EXCEPT ![Main] = "empty"]
            /\ UNCHANGED result
    /\ UNCHANGED <<site, _running, _active_workers, _tasks, _visited, _alerts,
                   _vacancies, heap, aq, task, rule, rule_applied, nodes,
                   invoked, started, preseeds, enqueued, fetched>>

\* ... or not self._tasks.empty(): result = True;  return result
is_working_empty ==
    /\ pc[Main] = "empty"
    /\ _mutex = "driver"
    /\ result' = IF _tasks # <<>> THEN "True" ELSE "False"
    /\ _mutex' = "free"
    /\ pc' = [pc EXCEPT ![Main] = IF _tasks # <<>> THEN "poll" ELSE "polled"]
    /\ UNCHANGED <<site, _running, _active_workers, _tasks, _visited, _alerts,
                   _vacancies, heap, aq, task, rule, rule_applied, nodes,
                   invoked, started, preseeds, enqueued, fetched>>

\* stop(): with self._mutex: if self._running: self._running = False
\* A caller that does not wait for is_working() to return False may call it
\* whenever it is not inside another call.
stop ==
    /\ pc[Main] = "polled" \/ (pc[Main] = "poll" /\ ~site.patient)
    /\ MutexFree
    /\ _running' = FALSE
    /\ pc' = [pc EXCEPT ![Main] = "join"]
    /\ UNCHANGED <<site, _mutex, _active_workers, _tasks, _visited, _alerts,
                   _vacancies, heap, aq, task, rule, rule_applied, nodes,
                   invoked, started, preseeds, result, enqueued, fetched>>

\* Variant of stop_join: stop() returns without waiting for the threads
stop_join_nowait ==
    /\ pc[Main] = "join"
    /\ pc' = [pc EXCEPT ![Main] = "done"]
    /\ UNCHANGED <<site, _running, _mutex, _active_workers, _tasks, _visited,
                   _alerts, _vacancies, heap, aq, task, rule, rule_applied,
                   nodes, invoked, started, preseeds, result, enqueued, fetched>>

\* for thread in self._threads: thread.join()
stop_join ==
    /\ pc[Main] = "join"
    /\ \A w \in Workers : pc[w] = "exited"
    /\ pc' = [pc EXCEPT ![Main] = "done"]
    /\ UNCHANGED <<site, _running, _mutex, _active_workers, _tasks, _visited,
                   _alerts, _vacancies, heap, aq, task, rule, rule_applied,
                   nodes, invoked, started, preseeds, result, enqueued, fetched>>

Worker(w) ==
    \/ do_task_loop(w)
    \/ do_task_mark(w)
    \/ do_task_get(w)
    \/ do_task_empty(w)
    \/ do_task_unknown(w)
    \/ do_task_end(w)
    \/ crawl(w)
    \/ parse(w)
    \/ level1(w)
    \/ level2(w)
    \/ pagination(w)
    \/ handler_return(w)
    \/ vacancies_list(w)
    \/ extractor(w)
    \/ add_vacancy(w)

Driver ==
    \/ pre_seed
    \/ start_seed
    \/ start_running
    \/ start_thread
    \/ is_working_sum
    \/ is_working_empty
    \/ stop
    \/ stop_join

Next ==
    \/ \E w \in Workers : Worker(w)
    \/ \E t \in Threads : add_to_queue(t)
    \/ Driver

Spec == Init /\ [][Next]_vars

(***************************************************************************)
(* Fair scheduling: every thread that can take a step infinitely often     *)
(* eventually takes one.                                                   *)
(***************************************************************************)
FairSpec ==
    /\ Spec
    /\ \A w \in Workers : SF_vars(Worker(w) \/ add_to_queue(w))
    /\ SF_vars(Driver \/ add_to_queue(Main))

(***************************************************************************)
(* join_cats on its own: the engine is as constructed, heap holds three    *)
(* category strings a, b, c, and the calls join_cats(a, b),                *)
(* join_cats(join_cats(a, b), c), join_cats(b, c) and                      *)
(* join_cats(a, join_cats(b, c)) append their results to it in this order. *)
(***************************************************************************)
Tokens == {"A", "B", SEP}

\* the strings of at most MaxCatLen tokens, "" among them
CatStrings == UNION {[1 .. n -> Tokens] : n \in 0 .. MaxCatLen}

JoinInit ==
    /\ site = SiteE2E
    /\ _running = FALSE
    /\ _mutex = "free"
    /\ _active_workers = [w \in Workers |-> 0]
    /\ _tasks = <<>>
    /\ _visited = {}
    /\ _alerts = <<>>
    /\ _vacancies = <<>>
    /\ heap \in [1 .. 3 -> CatStrings]
    /\ pc = [t \in Threads |-> IF t = Main THEN "init" ELSE "unstarted"]
    /\ aq = [t \in Threads |-> NoCall]
    /\ task = [w \in Workers |-> NoTask]
    /\ rule = [w \in Workers |-> 1]
    /\ rule_applied = [w \in Workers |-> FALSE]
    /\ nodes = [w \in Workers |-> <<>>]
    /\ invoked = [w \in Workers |-> <<>>]
    /\ started = 0
    /\ preseeds = 0
    /\ result = "none"
    /\ enqueued = [u \in AllURLs |-> 0]
    /\ fetched = [u \in AllURLs |-> 0]

\* the call join_cats(heap[i], heap[j]) made when heap holds n strings
JoinCall(n, i, j) ==
    /\ Len(heap) = n
    /\ heap' = Append(heap, join_cats(heap[i], heap[j]))
    /\ UNCHANGED <<site, _running, _mutex, _active_workers, _tasks, _visited,
                   _alerts, _vacancies, pc, aq, task, rule, rule_applied,
                   nodes, invoked, started, preseeds, result, enqueued, fetched>>

\* heap[4] = join_cats(a, b)
join_ab == JoinCall(3, 1, 2)
\* heap[5] = join_cats(join_cats(a, b), c)
join_ab_c == JoinCall(4, 4, 3)
\* heap[6] = join_cats(b, c)
join_bc == JoinCall(5, 2, 3)
\* heap[7] = join_cats(a, join_cats(b, c))
join_a_bc == JoinCall(6, 1, 6)

JoinNext ==
    \/ join_ab
    \/ join_ab_c
    \/ join_bc
    \/ join_a_bc

JoinSpec == JoinInit /\ [][JoinNext]_vars

(***************************************************************************)
(* Vocabulary of the properties.                                           *)
(***************************************************************************)
\* thread t has passed the seen-set test with a crawl task for url
PassedCheck(t, url) ==
    /\ aq[t].stage \in {"add", "put"}
    /\ aq[t].task.type = "crawl"
    /\ aq[t].task.url = url

\* worker w holds a popped task it has not finished processing
HoldsTask(w) == task[w] # NoTask

\* the rules whose pattern matches url, in table order
MatchingRules(url) ==
    SelectSeq([i \in 1 .. NRules |-> i], LAMBDA i : RuleMatches(i, url))

\* worker w has left the rule loop of parse() for its task
ParseDone(w) == pc[w] = "end" /\ task[w].type = "parse"

\* the alert store holds the exception of rule r for url
Alerted(url, r) ==
    \E i \in 1 .. Len(_alerts) :
        _alerts[i] = Alert("exception", url, r)

\* the crawl tasks that are queued or held by a worker
LiveCrawlTasks ==
    {_tasks[i] : i \in {j \in 1 .. Len(_tasks) : _tasks[j].type = "crawl"}}
    \cup {task[w] : w \in {v \in Workers : task[v].type = "crawl"}}

(***************************************************************************)
(* C1.  Of two concurrent calls of add_to_queue with a crawl task for the  *)
(* same URL only one gets past the seen-set test: two threads are never    *)
(* both about to enqueue the same URL.                                     *)
(***************************************************************************)
C1_ConcurrentDedup ==
    \A t1, t2 \in Threads : \A u \in AllURLs :
        (t1 # t2 /\ PassedCheck(t1, u)) => ~PassedCheck(t2, u)

(***************************************************************************)
(* C2.  No URL is fetched more than once: the queue never receives two     *)
(* crawl tasks with the same URL and requests.get runs at most once per    *)
(* URL.                                                                    *)
(***************************************************************************)
C2_FetchedAtMostOnce ==
    \A u \in AllURLs : enqueued[u] <= 1 /\ fetched[u] <= 1

(***************************************************************************)
(* C3.  Once is_working() has returned False, every later call returns     *)
(* False as well (nothing is enqueued from outside in this model).         *)
(***************************************************************************)
C3_StaysFalse == [][result = "False" => result' = "False"]_vars

(***************************************************************************)
(* C4.  When is_working() has returned False the crawl has drained: the    *)
(* queue is empty and no worker holds a popped task or is inside           *)
(* add_to_queue.                                                           *)
(***************************************************************************)
C4_FalseMeansDrained ==
    result = "False" =>
        /\ _tasks = <<>>
        /\ \A w \in Workers : ~HoldsTask(w) /\ Returned(w)

C4_Witness ==
    /\ result = "False"
    /\ _running
    /\ site = SiteTree
    /\ fetched[SubB2B] >= 1

(***************************************************************************)
(* C5.  A parse task of a listing page without a "next page" link makes    *)
(* the pagination handler enqueue nothing and record no alert: the step    *)
(* that runs the handler on such a page leaves the alert store unchanged.  *)
(***************************************************************************)
C5_EndOfPaginationSilent ==
    [][\A w \in Workers :
         (pc[w] = "pagination" /\ nodes[w] = <<>> /\ pc'[w] # "pagination")
            => (_alerts' = _alerts /\ aq' = aq)]_vars

(***************************************************************************)
(* C6.  When parse() is through with a task it has called the handler of   *)
(* every rule matching the task's URL, in table order; the exception of a  *)
(* handler that raised is in the alert store, and the handlers after it    *)
(* have run: every vacancy link of the page went through add_to_queue.     *)
(***************************************************************************)
C6_AllMatchingHandlersRun ==
    \A w \in Workers :
        ParseDone(w) =>
            /\ invoked[w] = MatchingRules(task[w].url)
            /\ (RuleMatches(3, task[w].url) /\ task[w].body.next = <<>>)
                   => Alerted(task[w].url, 3)
            /\ RuleMatches(4, task[w].url)
                   => \A i \in 1 .. Len(task[w].body.vacs) :
                          md5(task[w].body.vacs[i]) \in _visited

C6_Witness ==
    \E w \in Workers :
        /\ ParseDone(w)
        /\ invoked[w] = <<3, 4>>
        /\ Alerted(task[w].url, 3)
        /\ task[w].body.vacs # <<>>
        /\ rule_applied[w]

(***************************************************************************)
(* C7.  A crawl task keeps the category its creating handler gave it: the  *)
(* creation of a sibling changes no queued or popped task's category.      *)
(***************************************************************************)
C7_ChildKeepsCategory ==
    \A t \in LiveCrawlTasks :
        t.label # None => get_category(t) = t.label

(***************************************************************************)
(* C8.  End to end on the site of the scenario (root lists Sales ->        *)
(* /catalog/sales, which answers with a listing page of one vacancy link   *)
(* and no next page): after the drain there is exactly one record, its     *)
(* category is "Sales", and there is no alert.                             *)
(***************************************************************************)
C8_EndToEnd ==
    (site = SiteE2E /\ result = "False") =>
        /\ Len(_vacancies) = 1
        /\ _vacancies[1].category = <<"Sales">>
        /\ _alerts = <<>>

(***************************************************************************)
(* C9.  Under fair scheduling the crawl drains and the poll of             *)
(* is_working() eventually returns False, for a caller that polls until it *)
(* does.                                                                   *)
(***************************************************************************)
C9_EventuallyNotWorking == site.patient => <>(result = "False")

(***************************************************************************)
(* C10.  After a crawl seed has been enqueued twice (or more) before the    *)
(* workers start, exactly one crawl task for it has been put on the        *)
(* queue, no second one is ever put, and it is fetched once: at most once  *)
(* at any time and exactly once when the crawl has drained.                *)
(***************************************************************************)
C10_SeedOnce ==
    site.kind = "crawl" =>
        /\ (pc[Main] # "init" /\ Returned(Main)) => enqueued[site.seed] = 1
        /\ fetched[site.seed] <= 1
        /\ result = "False" => fetched[site.seed] = 1

C10_Witness ==
    /\ site.kind = "crawl"
    /\ pc[Main] = "start"
    /\ Returned(Main)
    /\ preseeds >= 1
    /\ Len(_tasks) = 1
    /\ enqueued[site.seed] = 1

\* the record the extractor emits for task tk: the page and tk's context
\* category
Record(tk) == [url |-> tk.url, category |-> get_category(tk)]

(***************************************************************************)
(* C11.  A parse task given to the extractor whose page lacks a required   *)
(* field appends no record and records the exception as an alert; a task   *)
(* whose page has every field appends exactly one record, whose category   *)
(* is the category of the task's context, and no alert.  Every record in   *)
(* the store comes from a complete page.                                   *)
(***************************************************************************)
C11_ExtractorOutcome ==
    [][/\ \A w \in Workers :
            /\ (pc[w] = "extractor" /\ pc'[w] # "extractor") =>
                   IF task[w].body.fields
                   THEN /\ pc'[w] = "add_vacancy"
                        /\ _vacancies' = _vacancies
                        /\ _alerts' = _alerts
                   ELSE /\ pc'[w] = "parse"
                        /\ _vacancies' = _vacancies
                        /\ _alerts' = Append(_alerts,
                                             Alert("exception", task[w].url, 5))
            /\ (pc[w] = "add_vacancy" /\ pc'[w] # "add_vacancy") =>
                   /\ pc'[w] = "parse"
                   /\ _vacancies' = Append(_vacancies, Record(task[w]))
                   /\ _alerts' = _alerts
       /\ \A i \in 1 .. Len(_vacancies') :
            /\ _vacancies'[i].url \in DOMAIN site.pages
            /\ site.pages[_vacancies'[i].url].fields]_vars

C11_Witness ==
    /\ site = SiteDetail
    /\ _vacancies = <<[url |-> Vac1, category |-> <<"QA">>]>>
    /\ Alerted(Vac2, 5)

\* the fetch of url fails: a network error, or a response that is not 2xx
FetchFails(s, url) == FetchRaises(s, url) \/ s.pages[url].status = "404"

(***************************************************************************)
(* C12.  The step in which a worker fetches the URL of its crawl task has  *)
(* one of two outcomes.  If the fetch fails (network error or non-2xx      *)
(* response) an alert for the URL is recorded, add_to_queue is not called  *)
(* and nothing is put on the queue.  If it succeeds add_to_queue is called *)
(* with one parse task of the same URL and context, past the seen-set      *)
(* test, and no alert is recorded.                                         *)
(***************************************************************************)
C12_CrawlOutcome ==
    [][\A w \in Workers :
         (pc[w] = "crawl" /\ pc'[w] # "crawl") =>
            /\ _tasks' = _tasks
            /\ _visited' = _visited
            /\ IF FetchFails(site, task[w].url)
               THEN /\ _alerts' = Append(_alerts,
                                         Alert("exception", task[w].url, 0))
                    /\ aq'[w] = aq[w]
               ELSE /\ _alerts' = _alerts
                    /\ aq'[w].stage = "put"
                    /\ aq'[w].task.type = "parse"
                    /\ aq'[w].task.url = task[w].url
                    /\ get_category(aq'[w].task) = get_category(task[w])]_vars

\* stop() has been called: the running flag is cleared and the caller is in
\* the joins or past them
Stopping == pc[Main] \in {"join", "done"}

\* stop() has returned
Stopped == pc[Main] = "done"

(***************************************************************************)
(* C13.  Once stop() has cleared the flag no worker begins another loop    *)
(* iteration: a worker at the head of its loop leaves the loop, and a      *)
(* worker that has left stays out.  stop() returns only when every worker  *)
(* has left its loop, holding no task and outside add_to_queue; after      *)
(* that no step changes the queue, the record store, the alert store or    *)
(* any worker.                                                             *)
(***************************************************************************)
C13_StopQuiesces ==
    [][/\ \A w \in Workers :
            /\ (Stopping /\ pc[w] = "loop") => pc'[w] \in {"loop", "exited"}
            /\ pc[w] = "exited" => pc'[w] = "exited"
       /\ Stopped' =>
            \A w \in Workers :
                pc'[w] = "exited" /\ task'[w] = NoTask /\ aq'[w] = NoCall
       /\ Stopped =>
            /\ _tasks' = _tasks
            /\ _vacancies' = _vacancies
            /\ _alerts' = _alerts
            /\ task' = task]_vars

C13_Witness ==
    /\ Stopped
    /\ ~_running
    /\ site = SiteGone
    /\ fetched[Gone] = 1
    /\ Len(_tasks) = 1
    /\ _tasks[1].type = "parse"

\* the caller is inside a call of start() made while the engine is running
InSecondStart == pc[Main] = "again" \/ (pc[Main] = "start" /\ _running)

\* the step is one of the caller's
MainStep == pc'[Main] # pc[Main] \/ aq'[Main] # aq[Main]

(***************************************************************************)
(* C14.  A step of a call of start() made while the engine is running      *)
(* starts no worker and leaves the running flag, the worker threads, the   *)
(* flags, the records and the alerts as they are; it changes the queue     *)
(* only by putting the seed task passed to it, and a crawl seed that has   *)
(* been seen is not put again.  The call returns to the caller without     *)
(* creating threads, and at no time have more than n_workers worker loops  *)
(* been started.                                                           *)
(***************************************************************************)
C14_StartWhileRunning ==
    [][/\ (InSecondStart /\ MainStep) =>
            /\ _running' = _running
            /\ started' = started
            /\ \A w \in Workers : pc'[w] = pc[w]
            /\ _active_workers' = _active_workers
            /\ _vacancies' = _vacancies
            /\ _alerts' = _alerts
            /\ pc'[Main] \in {"again", "start", "poll"}
            /\ \/ _tasks' = _tasks
               \/ /\ site.kind # "crawl"
                  /\ Len(_tasks') = Len(_tasks) + 1
                  /\ _tasks'[Len(_tasks')].type = site.kind
                  /\ _tasks'[Len(_tasks')].url = site.seed
       /\ started' <= NWorkers]_vars

C14_Witness ==
    /\ site = SiteAbout
    /\ pc[Main] = "poll"
    /\ result = "none"
    /\ _running
    /\ started = NWorkers
    /\ enqueued[About] = 1

(***************************************************************************)
(* C15.  join_cats follows the join rule: for the category strings a, b,   *)
(* c that heap starts with, join(a, "") = a, join("", b) = b,              *)
(* join("", "") = "", join(a, b) is a, the separator and b when both are   *)
(* non-empty (and the non-empty one otherwise), and                        *)
(* join(join(a, b), c) = join(a, join(b, c)).                              *)
(***************************************************************************)
C15_JoinRule ==
    LET a == heap[1]
        b == heap[2]
        c == heap[3]
    IN  /\ join_cats(a, <<>>) = a
        /\ join_cats(<<>>, b) = b
        /\ join_cats(<<>>, <<>>) = <<>>
        /\ Len(heap) >= 4 =>
               heap[4] = IF a = <<>> THEN b
                         ELSE IF b = <<>> THEN a
                         ELSE a \o <<SEP>> \o b
        /\ Len(heap) >= 7 => heap[5] = heap[7]
        /\ join_cats(join_cats(a, b), c) = join_cats(a, join_cats(b, c))

C15_Witness ==
    /\ Len(heap) = 7
    /\ heap[1] = <<"A">>
    /\ heap[2] = <<SEP, "B">>
    /\ heap[3] = <<"A", "B">>
    /\ heap[4] = <<"A", SEP, SEP, "B">>
    /\ heap[7] = <<"A", SEP, SEP, "B", SEP, "A", "B">>

\* the alert store holds the "no rules applied" alert for url
NoRuleAlert(url) ==
    \E i \in 1 .. Len(_alerts) :
        _alerts[i] = Alert("no rules applied", url, 0)

(***************************************************************************)
(* C16.  The alert "no rules applied" is recorded for a parse task if and  *)
(* only if no pattern of the rule table matches the task's URL: the alert  *)
(* store holds it for no URL that a rule matches (whether or not the       *)
(* rule's handler raised), and it holds it for the URL of every task that  *)
(* parse() is through with and that no rule matches.                       *)
(***************************************************************************)
C16_NoRuleAlertIffNoMatch ==
    /\ \A u \in AllURLs : NoRuleAlert(u) => MatchingRules(u) = <<>>
    /\ \A w \in Workers :
          (ParseDone(w) /\ MatchingRules(task[w].url) = <<>>)
             => NoRuleAlert(task[w].url)

\* worker w is inside add_vacancy: the record is built and the append to
\* self._vacancies is its next step
InAddVacancy(w) == pc[w] = "add_vacancy"

(***************************************************************************)
(* C17.  The appends to the record store are made under the engine's       *)
(* lock: no two workers are inside add_vacancy, about to append to the     *)
(* record store, at the same time.                                         *)
(***************************************************************************)
C17_AppendsUnderLock ==
    \A w1, w2 \in Workers :
        (w1 # w2 /\ InAddVacancy(w1)) => ~InAddVacancy(w2)

(***************************************************************************)
(* C18.  The link of every crawl task a handler enqueues is resolved to an *)
(* absolute URL before its fingerprint is taken: no fingerprint of a       *)
(* relative link is in the seen-set, no crawl task with a relative URL is  *)
(* put on the queue, and the relative and the absolute form of one page    *)
(* are not both enqueued.                                                  *)
(***************************************************************************)
C18_ResolvedBeforeFingerprint ==
    \A u \in AllURLs :
        ~u.abs =>
            /\ md5(u) \notin _visited
            /\ enqueued[u] = 0
            /\ Abs(u.path) \in AllURLs =>
                   enqueued[u] + enqueued[Abs(u.path)] <= 1

\* the body of task tk is a non-empty string
HasBody(tk) == tk.body.status \notin {"none", "empty"}

(***************************************************************************)
(* C19.  Every parse task on the queue carries a non-empty body and every  *)
(* crawl task on the queue carries none.                                   *)
(***************************************************************************)
C19_BodyByKind ==
    \A i \in 1 .. Len(_tasks) :
        /\ _tasks[i].type = "parse" => HasBody(_tasks[i])
        /\ _tasks[i].type = "crawl" => _tasks[i].body = NoBody

\* processing task tk meets an error: the fetch fails, the body cannot be
\* parsed, a matching handler raises (no pager-next, a missing field), no
\* rule matches the URL, or the type is unknown
Erroneous(tk) ==
    \/ /\ tk.type = "crawl"
       /\ FetchFails(site, tk.url)
    \/ /\ tk.type = "parse"
       /\ \/ ~Parsable(tk.body)
          \/ MatchingRules(tk.url) = <<>>
          \/ RuleMatches(3, tk.url) /\ tk.body.next = <<>>
          \/ RuleMatches(5, tk.url) /\ ~tk.body.fields
    \/ tk.type \notin {"crawl", "parse"}

(***************************************************************************)
(* C20.  No error met while a task is processed ends the worker's loop: a  *)
(* worker leaves its loop only when stop() has cleared the running flag,   *)
(* and when a worker is through with a task whose processing met an error  *)
(* (failed fetch, unparsable body, raising handler, missing field, no      *)
(* matching rule, unknown type) the alert store holds an alert for the     *)
(* task's URL.                                                             *)
(***************************************************************************)
C20_ErrorsOnlyAlert ==
    [][\A w \in Workers :
         /\ (pc[w] # "exited" /\ pc'[w] = "exited") =>
                (Stopping /\ ~_running /\ pc[w] = "loop")
         /\ (pc[w] = "end" /\ pc'[w] # "end" /\ HoldsTask(w)
                           /\ Erroneous(task[w])) =>
                \E i \in 1 .. Len(_alerts) : _alerts[i].url = task[w].url]_vars
====
